---- MODULE Spec2Model ----
(***************************************************************************)
(* A model of echellogram_plot.py: the wavelength -> colour mapping        *)
(* (wavelength_to_rgb), the spectral line scan (trace_lines) and the       *)
(* order-assembly / labelling loop of plot_echellogram.                    *)
(*                                                                         *)
(* Number representation.                                                  *)
(*  - detector coordinates are whole millimetres; the axis limits, which   *)
(*    the code sets to abs(corner) * 1.25, are carried in quarter          *)
(*    millimetres (abs(corner) * 5), so a test  v > lim  is  4*v > lim4.   *)
(*  - a sample's wavelength point[1] (microns) is carried as its whole     *)
(*    number of nanometres, which is what  point[1] * 1000.  yields.       *)
(*  - a mean wavelength is the exact fraction num/den; den = 0 is the nan  *)
(*    numpy returns for the mean of an empty array.                        *)
(*  - a colour channel in [0,1] is carried as floor(channel * Scale).      *)
(*  - in trace_lines a micron value is carried as its whole number of      *)
(*    nanometres; the catalog's angstrom values are multiples of 10, so    *)
(*    wl_angstrom / 10_000. is exactly wl_angstrom \div 10 nanometres.     *)
(***************************************************************************)
EXTENDS Integers, Sequences, FiniteSets, TLC

\* ------------------------------------------------------------------ bounds
MaxPoints == 3
Scale == 20
MaxOrders == 2
MaxLines == 3
MaxFailures == 1

\* ------------------------------------------------------------ input domains
OrderValues == {0, 4, 5}
DetectorCorners == {4}
\* positions (x, y) in mm, for a viewport of +-5 mm: inside for both labels,
\* x on the upper and on the lower boundary, y on the upper and on the lower
\* boundary, inside for the order label only, inside for the wavelength label only
LayoutPositions == {<<0, -1>>, <<5, -1>>, <<-5, -1>>, <<0, 5>>, <<0, -5>>, <<0, 0>>, <<0, -3>>}
ColourPositions == {<<0, -1>>}
ColourOrderValues == {0, 5}
LayoutWavelengths == {500}
ColourWavelengths == {300, 500, 800}
\* gamma as a fraction <<p, q>>; <<4, 5>> is the default 0.8
DefaultGamma == <<4, 5>>
Gammas == {<<4, 5>>, <<1, 1>>, <<2, 1>>}
ProbeWavelengths == {0, 379, 380, 440, 600, 750, 751, 1000}
\* pre-traced lines handed to plot_echellogram: [name, m, wl (nm), x, y]
LinesXY == << [name |-> "A", m |-> 5, wl |-> 500, x |-> 0, y |-> 0],
              [name |-> "B", m |-> 5, wl |-> 500, x |-> 5, y |-> 0] >>

\* the optical model's orders: wavelengths in nm (microns carried with three
\* decimals); order -2 and -3 store their FSR bounds reversed, order 2 does not
OrderRecords ==
    { [m |-> -2, minFSRwl |-> 500, maxFSRwl |-> 400, minWL |-> 380, maxWL |-> 520],
      [m |-> -3, minFSRwl |-> 470, maxFSRwl |-> 350, minWL |-> 340, maxWL |-> 480],
      [m |-> 2,  minFSRwl |-> 400, maxFSRwl |-> 500, minWL |-> 380, maxWL |-> 520] }
\* the line catalog's entries: name and wavelength in angstrom
CatalogLines ==
    { [name |-> "A", wl |-> 4000], [name |-> "B", wl |-> 4500],
      [name |-> "C", wl |-> 4800], [name |-> "D", wl |-> 5100] }

PointsOver(ms, wls, ps) ==
    {[m |-> m, wl |-> wl, x |-> p[1], y |-> p[2]] : m \in ms, wl \in wls, p \in ps}

RECURSIVE SeqsUpTo(_, _)
SeqsUpTo(S, n) ==
    IF n = 0 THEN {<< >>}
    ELSE LET shorter == SeqsUpTo(S, n - 1)
         IN  shorter \cup {Append(s, e) : s \in {t \in shorter : Len(t) = n - 1}, e \in S}

VARIABLES
    \* plot_echellogram
    SpectralFormat,     \* the argument: sequence of points [m, wl, x, y]
    detector_corner,    \* detector_corners[0]
    ppc,                \* "idle", "loop", "lines", "done"
    i,                  \* number of points the loop has consumed
    working_m, order_xs, order_ys, order_wls,
    xlim, ylim,         \* the axes' limits, in quarter millimetres
    plots,              \* the ax.plot calls, in order
    texts,              \* the ax.text calls, in order
    label_pass,         \* indices of the ax.plot calls whose line 194 test held
    \* wavelength_to_rgb called on its own
    rgb_call,
    \* trace_lines
    Orders,             \* list(Echelle.Orders.values()): records of OrderRecords
    line_list,          \* line_list.items(), in the dict's order
    FSRonly,
    trace_fails,        \* the <<order, wavelength>> for which the ray trace fails
    tpc,                \* "idle", "order", "line", "wave", "trace", "done"
    oi, li,             \* the orders and the lines of this order consumed so far
    min_wl, max_wl,
    zmx_m, zmx_wave,    \* the optical model's active order and wavelength
    lines_xy,           \* the records appended so far
    tested,             \* the line 140 tests made so far, with their outcome
    trace_log           \* the zGetTrace calls made so far

plotVars == <<SpectralFormat, detector_corner, ppc, i, working_m, order_xs,
              order_ys, order_wls, xlim, ylim, plots, texts, label_pass>>
traceVars == <<Orders, line_list, FSRonly, trace_fails, tpc, oi, li, min_wl, max_wl,
               zmx_m, zmx_wave, lines_xy, tested, trace_log>>
vars == <<plotVars, rgb_call, traceVars>>

\* ------------------------------------------------------ wavelength_to_rgb
Abs(n) == IF n < 0 THEN -n ELSE n

RECURSIVE IntPow(_, _)
IntPow(b, e) == IF e = 0 THEN 1 ELSE b * IntPow(b, e - 1)

\* floor(Scale * (v / Scale) ** (p / q)) for a channel value v in 0..Scale
GammaPow(v, gamma) ==
    LET p == gamma[1]
        q == gamma[2]
    IN  CHOOSE r \in 0..Scale :
          LET fits(t) == IF q >= p
                         THEN IntPow(t, q) <= IntPow(v, p) * IntPow(Scale, q - p)
                         ELSE IntPow(t, q) * IntPow(Scale, p - q) <= IntPow(v, p)
          IN  fits(r) /\ (r = Scale \/ ~fits(r + 1))

\* comparisons of the wavelength w = num/den with a whole number; all are
\* false for nan
WlGe(w, k) == w.den > 0 /\ w.num >= k * w.den
\* WlLe with every upper band edge 60 nm too high
WlLeLoose(w, k) == w.den > 0 /\ w.num <= (k + 60) * w.den
WlLe(w, k) == w.den > 0 /\ w.num <= k * w.den

\* floor(Scale * (w - lo) / (hi - lo)) and floor(Scale * (hi - w) / (hi - lo))
RampUp(w, lo, hi) == (Scale * (w.num - lo * w.den)) \div ((hi - lo) * w.den)
RampDown(w, lo, hi) == (Scale * (hi * w.den - w.num)) \div ((hi - lo) * w.den)

\* 0.3 + 0.7 * frac, for frac in 0..Scale
Attenuation(frac) == (3 * Scale + 7 * frac) \div 10

wavelength_to_rgb(w, gamma) ==
    IF WlGe(w, 380) /\ WlLe(w, 440) THEN
        LET attenuation == Attenuation(RampUp(w, 380, 440))
        IN  << GammaPow((RampDown(w, 380, 440) * attenuation) \div Scale, gamma),
               0,
               GammaPow(attenuation, gamma) >>
    ELSE IF WlGe(w, 440) /\ WlLe(w, 490) THEN
        << 0, GammaPow(RampUp(w, 440, 490), gamma), Scale >>
    ELSE IF WlGe(w, 490) /\ WlLe(w, 510) THEN
        << 0, Scale, GammaPow(RampDown(w, 490, 510), gamma) >>
    ELSE IF WlGe(w, 510) /\ WlLe(w, 580) THEN
        << GammaPow(RampUp(w, 510, 580), gamma), Scale, 0 >>
    ELSE IF WlGe(w, 580) /\ WlLe(w, 645) THEN
        << Scale, GammaPow(RampDown(w, 580, 645), gamma), 0 >>
    ELSE IF WlGe(w, 645) /\ WlLe(w, 750) THEN
        << GammaPow(Attenuation(RampDown(w, 645, 750)), gamma), 0, 0 >>
    ELSE
        << 0, 0, 0 >>

\* ------------------------------------------------------- plot_echellogram
RECURSIVE SeqSum(_)
SeqSum(s) == IF s = << >> THEN 0 ELSE s[1] + SeqSum(Tail(s))

\* np.mean(np.array(order_wls) * 1000.)
MeanWl(wls) == [num |-> SeqSum(wls), den |-> Len(wls)]

\* the ax.plot call of lines 189-193 and 231-235; order and wls record the
\* accumulator's order (working_m) and wavelengths at the call
PlotCall(xs, ys, wls, m) ==
    LET col == wavelength_to_rgb(MeanWl(wls), DefaultGamma)
    IN  [x |-> ys, y |-> xs, order |-> m, wls |-> wls,
         neutral |-> (col[1] + col[2] + col[3] = 0), col |-> col]

\* line 194
LabelPass(xs, m) == Len(xs) > 0 /\ m % 5 = 0

\* WlLabelTest with inclusive comparisons
WlLabelTestInclusive(xs, ys, xl, yl) ==
    /\ 4 * xs[1] >= xl[1] /\ 4 * xs[1] <= xl[2]
    /\ 4 * ys[1] >= yl[1] /\ 4 * (ys[1] + 5) <= yl[2]

\* lines 195-196
WlLabelTest(xs, ys, xl, yl) ==
    /\ 4 * xs[1] > xl[1] /\ 4 * xs[1] < xl[2]
    /\ 4 * ys[1] > yl[1] /\ 4 * (ys[1] + 5) < yl[2]

\* lines 204-205
OrderLabelTest(xs, ys, xl, yl) ==
    /\ 4 * xs[1] > xl[1] /\ 4 * xs[1] < xl[2]
    /\ 4 * (ys[1] - 3) > yl[1] /\ 4 * ys[1] < yl[2]

\* the ax.text calls of lines 194-211 for the accumulator being closed, m the
\* order of the point that closes it; plot is the index of its ax.plot call
LabelCalls(xs, ys, wls, m, xl, yl, plot) ==
    IF ~LabelPass(xs, m) THEN << >>
    ELSE (IF WlLabelTest(xs, ys, xl, yl)
          THEN << [kind |-> "wl", x |-> ys[1], y |-> xs[1], value |-> wls[1],
                   verbose |-> (Abs(m) = 90), plot |-> plot] >>
          ELSE << >>)
         \o
         (IF OrderLabelTest(xs, ys, xl, yl)
          THEN << [kind |-> "order", x |-> ys[Len(ys)], y |-> xs[Len(xs)],
                   value |-> Abs(m), verbose |-> (Abs(m) = 90), plot |-> plot] >>
          ELSE << >>)

\* lines 175-182
PlotBegin ==
    /\ ppc = "idle"
    /\ ppc' = "loop"
    /\ i' = 0
    /\ working_m' = 0
    /\ order_xs' = << >> /\ order_ys' = << >> /\ order_wls' = << >>
    /\ xlim' = << -(Abs(detector_corner) * 5), Abs(detector_corner) * 5 >>
    /\ ylim' = << -(Abs(detector_corner) * 5), Abs(detector_corner) * 5 >>
    /\ UNCHANGED <<SpectralFormat, detector_corner, plots, texts, label_pass, rgb_call, traceVars>>

\* lines 185-235: one iteration of the loop, for the point at index i
PlotStep ==
    /\ ppc = "loop"
    /\ i < Len(SpectralFormat)
    /\ LET point == SpectralFormat[i + 1]
           m == point.m
           changed == m /= working_m
           last == (i = Len(SpectralFormat) - 1)
           \* lines 188-218
           plots1 == IF changed
                     THEN Append(plots, PlotCall(order_xs, order_ys, order_wls, working_m))
                     ELSE plots
           texts1 == IF changed
                     THEN texts \o LabelCalls(order_xs, order_ys, order_wls, m,
                                              xlim, ylim, Len(plots1))
                     ELSE texts
           wm1  == IF changed THEN m ELSE working_m
           xs1  == IF changed THEN << point.x >> ELSE order_xs
           ys1  == IF changed THEN << point.y >> ELSE order_ys
           wls1 == IF changed THEN << point.wl >> ELSE order_wls
           \* lines 220-223
           same == (m = wm1)
           xs2  == IF same THEN Append(xs1, point.x) ELSE xs1
           ys2  == IF same THEN Append(ys1, point.y) ELSE ys1
           wls2 == IF same THEN Append(wls1, point.wl) ELSE wls1
           \* lines 226-235
           xs3  == IF last THEN Append(xs2, point.x) ELSE xs2
           ys3  == IF last THEN Append(ys2, point.y) ELSE ys2
           wls3 == IF last THEN Append(wls2, point.wl) ELSE wls2
           plots3 == IF last THEN Append(plots1, PlotCall(xs3, ys3, wls3, wm1))
                     ELSE plots1
       IN  /\ working_m' = wm1
           /\ order_xs' = xs3 /\ order_ys' = ys3 /\ order_wls' = wls3
           /\ plots' = plots3
           /\ texts' = texts1
           /\ label_pass' = IF changed /\ LabelPass(order_xs, m)
                             THEN label_pass \cup {Len(plots1)}
                             ELSE label_pass
    /\ i' = i + 1
    /\ UNCHANGED <<SpectralFormat, detector_corner, ppc, xlim, ylim, rgb_call, traceVars>>

\* line 185: the loop is exhausted
PlotLoopEnd ==
    /\ ppc = "loop"
    /\ i = Len(SpectralFormat)
    /\ ppc' = "lines"
    /\ UNCHANGED <<SpectralFormat, detector_corner, i, working_m, order_xs, order_ys,
                   order_wls, xlim, ylim, plots, texts, label_pass, rgb_call, traceVars>>

\* lines 239-240
LineInView(line, xl, yl) ==
    /\ 4 * line.x > xl[1] /\ 4 * line.x < xl[2]
    /\ 4 * line.y > yl[1] /\ 4 * line.y < yl[2]

RECURSIVE LineCalls(_, _, _)
LineCalls(ls, xl, yl) ==
    IF ls = << >> THEN << >>
    ELSE (IF LineInView(Head(ls), xl, yl)
          THEN << [kind |-> "line", x |-> Head(ls).y, y |-> Head(ls).x,
                   value |-> Head(ls).name, verbose |-> FALSE, plot |-> 0] >>
          ELSE << >>)
         \o LineCalls(Tail(ls), xl, yl)

\* lines 237-263: the line names; the detector outline and the axes'
\* decoration leave the plot and text calls alone
PlotLines ==
    /\ ppc = "lines"
    /\ texts' = texts \o LineCalls(LinesXY, xlim, ylim)
    /\ ppc' = "done"
    /\ UNCHANGED <<SpectralFormat, detector_corner, i, working_m, order_xs, order_ys,
                   order_wls, xlim, ylim, plots, label_pass, rgb_call, traceVars>>

\* wavelength_to_rgb(wavelength, gamma) called by itself (lines 14-64)
CallWavelengthToRgb ==
    /\ ppc = "idle"
    /\ \E wl \in ProbeWavelengths, g \in Gammas :
          rgb_call' = [wavelength |-> wl, gamma |-> g,
                       rgb |-> wavelength_to_rgb([num |-> wl, den |-> 1], g)]
    /\ UNCHANGED <<plotVars, traceVars>>

\* ------------------------------------------------------------ trace_lines
\* line 138: wl_angstrom / 10_000. (microns), carried in nm
LineWl(wl_angstrom) == wl_angstrom \div 10

\* lines 128-135: <<min_wl, max_wl>>
Window(o, fsr) == IF fsr THEN << o.maxFSRwl, o.minFSRwl >> ELSE << o.minWL, o.maxWL >>

\* line 140
InWindow(line_wl, lo, hi) == line_wl > lo /\ line_wl < hi

\* zGetTrace with the model's active order and wavelength: the detector
\* position, or an integer on failure
TracePosition(m, wave) == << m, wave >>
TraceFails(m, wave) == << m, wave >> \in trace_fails

\* lines 121-122
TraceBegin ==
    /\ tpc = "idle"
    /\ tpc' = "order"
    /\ lines_xy' = << >>
    /\ oi' = 0
    /\ UNCHANGED <<Orders, line_list, FSRonly, trace_fails, li, min_wl, max_wl,
                   zmx_m, zmx_wave, tested, trace_log, plotVars, rgb_call>>

\* lines 124-135: the next order is made the model's active order and its
\* window is taken
TraceOrder ==
    /\ tpc = "order"
    /\ oi < Len(Orders)
    /\ LET o == Orders[oi + 1]
       IN  /\ zmx_m' = o.m
           /\ min_wl' = Window(o, FSRonly)[1]
           /\ max_wl' = Window(o, FSRonly)[2]
    /\ oi' = oi + 1
    /\ li' = 0
    /\ tpc' = "line"
    /\ UNCHANGED <<Orders, line_list, FSRonly, trace_fails, zmx_wave, lines_xy,
                   tested, trace_log, plotVars, rgb_call>>

\* lines 124, 154: no order is left
TraceReturn ==
    /\ tpc = "order"
    /\ oi = Len(Orders)
    /\ tpc' = "done"
    /\ UNCHANGED <<Orders, line_list, FSRonly, trace_fails, oi, li, min_wl, max_wl,
                   zmx_m, zmx_wave, lines_xy, tested, trace_log, plotVars, rgb_call>>

\* lines 137-140: the next line of the catalog is tested against the window
TraceLine ==
    /\ tpc = "line"
    /\ li < Len(line_list)
    /\ li' = li + 1
    /\ LET line_wl == LineWl(line_list[li + 1].wl)
           inside == InWindow(line_wl, min_wl, max_wl)
       IN  /\ tpc' = IF inside THEN "wave" ELSE "line"
           /\ tested' = Append(tested, [name |-> line_list[li + 1].name, wl |-> line_wl,
                                        order |-> Orders[oi], candidate |-> inside])
    /\ UNCHANGED <<Orders, line_list, FSRonly, trace_fails, oi, min_wl, max_wl,
                   zmx_m, zmx_wave, lines_xy, trace_log, plotVars, rgb_call>>

\* line 137: no line is left for this order
TraceLinesEnd ==
    /\ tpc = "line"
    /\ li = Len(line_list)
    /\ tpc' = "order"
    /\ UNCHANGED <<Orders, line_list, FSRonly, trace_fails, oi, li, min_wl, max_wl,
                   zmx_m, zmx_wave, lines_xy, tested, trace_log, plotVars, rgb_call>>

\* TraceSetWave that leaves the model's active wavelength as it was
TraceSetWaveStale ==
    /\ tpc = "wave"
    /\ tpc' = "trace"
    /\ UNCHANGED <<Orders, line_list, FSRonly, trace_fails, oi, li, min_wl, max_wl,
                   zmx_m, zmx_wave, lines_xy, tested, trace_log, plotVars, rgb_call>>

\* lines 141-142
TraceSetWave ==
    /\ tpc = "wave"
    /\ zmx_wave' = LineWl(line_list[li].wl)
    /\ tpc' = "trace"
    /\ UNCHANGED <<Orders, line_list, FSRonly, trace_fails, oi, li, min_wl, max_wl,
                   zmx_m, lines_xy, tested, trace_log, plotVars, rgb_call>>

\* lines 143-152: the trace; a failure leaves the loop over the lines (break)
TraceGet ==
    /\ tpc = "trace"
    /\ LET o == Orders[oi]
           line == line_list[li]
           line_wl == LineWl(line.wl)
           failed == TraceFails(zmx_m, zmx_wave)
       IN  /\ trace_log' = Append(trace_log,
                  [name |-> line.name, m |-> o.m, wl |-> line_wl, order |-> o,
                   zmx_m |-> zmx_m, zmx_wave |-> zmx_wave, failed |-> failed])
           /\ lines_xy' = IF failed THEN lines_xy
                          ELSE Append(lines_xy,
                                   [name |-> line.name, m |-> o.m, wl |-> line_wl,
                                    xy |-> TracePosition(zmx_m, zmx_wave)])
           /\ tpc' = IF failed THEN "order" ELSE "line"
    /\ UNCHANGED <<Orders, line_list, FSRonly, trace_fails, oi, li, min_wl, max_wl,
                   zmx_m, zmx_wave, tested, plotVars, rgb_call>>

\* ------------------------------------------------------------ specifications
\* Echelle.Orders and line_list are dicts: one entry per order, one per name
DistinctOrders(s) == \A a, b \in 1..Len(s) : a /= b => s[a].m /= s[b].m
DistinctNames(s) == \A a, b \in 1..Len(s) : a /= b => s[a].name /= s[b].name

SubsetsUpTo(S, n) == {T \in SUBSET S : Cardinality(T) <= n}

PlotInit(points) ==
    /\ SpectralFormat \in SeqsUpTo(points, MaxPoints)
    /\ detector_corner \in DetectorCorners
    /\ ppc = "idle"
    /\ i = 0
    /\ working_m = 0
    /\ order_xs = << >> /\ order_ys = << >> /\ order_wls = << >>
    /\ xlim = <<0, 4>> /\ ylim = <<0, 4>>
    /\ plots = << >>
    /\ texts = << >>
    /\ label_pass = {}
    /\ rgb_call = [wavelength |-> 0, gamma |-> DefaultGamma, rgb |-> <<0, 0, 0>>]

TraceInit(orderSeqs, lineSeqs, failSets) ==
    /\ Orders \in orderSeqs
    /\ line_list \in lineSeqs
    /\ FSRonly \in BOOLEAN
    /\ trace_fails \in failSets
    /\ tpc = "idle"
    /\ oi = 0 /\ li = 0
    /\ min_wl = 0 /\ max_wl = 0
    /\ zmx_m = 0 /\ zmx_wave = 0
    /\ lines_xy = << >>
    /\ tested = << >>
    /\ trace_log = << >>

NoTrace == TraceInit({<< >>}, {<< >>}, {{}}) /\ FSRonly

Init == PlotInit(PointsOver(OrderValues, LayoutWavelengths, LayoutPositions)) /\ NoTrace

Next == PlotBegin \/ PlotStep \/ PlotLoopEnd \/ PlotLines

Spec == Init /\ [][Next]_vars

InitColour == PlotInit(PointsOver(ColourOrderValues, ColourWavelengths, ColourPositions)) /\ NoTrace

NextColour == CallWavelengthToRgb \/ PlotBegin \/ PlotStep \/ PlotLoopEnd \/ PlotLines

SpecColour == InitColour /\ [][NextColour]_vars

InitTrace ==
    /\ PlotInit({})
    /\ TraceInit({s \in SeqsUpTo(OrderRecords, MaxOrders) : DistinctOrders(s)},
                 {s \in SeqsUpTo(CatalogLines, MaxLines) : DistinctNames(s)},
                 SubsetsUpTo({<<o.m, LineWl(l.wl)>> : o \in OrderRecords, l \in CatalogLines},
                             MaxFailures))

NextTrace ==
    TraceBegin \/ TraceOrder \/ TraceReturn \/ TraceLine \/ TraceLinesEnd
        \/ TraceSetWave \/ TraceGet

SpecTrace == InitTrace /\ [][NextTrace]_vars

\* ------------------------------------------------------------------ claims
PlotLoopOver == ppc \in {"lines", "done"}

RECURSIVE TotalPoints(_)
TotalPoints(ps) == IF ps = << >> THEN 0 ELSE Len(Head(ps).x) + TotalPoints(Tail(ps))

\* the orders of the maximal runs of consecutive points with equal order
RECURSIVE RunOrders(_)
RunOrders(pts) ==
    IF pts = << >> THEN << >>
    ELSE IF Len(pts) > 1 /\ pts[1].m = pts[2].m THEN RunOrders(Tail(pts))
    ELSE << pts[1].m >> \o RunOrders(Tail(pts))

PolylineLabels(k) ==
    {t \in 1..Len(texts) : texts[t].kind \in {"wl", "order"} /\ texts[t].plot = k}

\* C1: once the loop is over, the points of all the polylines drawn with
\* ax.plot number exactly the input points.
C1_PointsConserved == PlotLoopOver => TotalPoints(plots) = Len(SpectralFormat)

\* C2: no polyline drawn with ax.plot has zero points, and the first point of
\* the input only opens the accumulator: no polyline is drawn before a second
\* point is read.
C2_NoEmptyPolyline ==
    /\ \A k \in 1..Len(plots) : Len(plots[k].x) >= 1
    /\ (ppc = "loop" /\ i = 1 /\ Len(SpectralFormat) > 1) => plots = << >>

\* C3: once the loop is over, the polylines drawn are, in order, one per
\* maximal run of equal-order points, the k-th polyline having the order of the
\* k-th run.
C3_OnePolylinePerRun ==
    PlotLoopOver => [k \in 1..Len(plots) |-> plots[k].order] = RunOrders(SpectralFormat)

\* C6: a wavelength label or an order-number label is drawn only for a
\* polyline whose own order is a multiple of 5.
C6_LabelOnlyOwnMultipleOf5 ==
    \A t \in 1..Len(texts) :
        texts[t].kind \in {"wl", "order"} => plots[texts[t].plot].order % 5 = 0

\* the viewport test of lines 204-205 applied to the polyline's last sample
LastSampleInView(pl) ==
    LET x == pl.y[Len(pl.y)]
        y == pl.x[Len(pl.x)]
    IN  /\ 4 * x > xlim[1] /\ 4 * x < xlim[2]
        /\ 4 * (y - 3) > ylim[1] /\ 4 * y < ylim[2]

\* C7: for a polyline that went through the labelling pass, the order-number
\* label is drawn exactly when the polyline's last sample is inside the
\* viewport.
C7_OrderLabelGatedByLastSample ==
    \A k \in label_pass :
        (\E t \in PolylineLabels(k) : texts[t].kind = "order") <=> LastSampleInView(plots[k])

FirstOnBoundary(pl) ==
    /\ Len(pl.x) > 0
    /\ \/ 4 * pl.y[1] \in {xlim[1], xlim[2]}
       \/ 4 * pl.x[1] \in {ylim[1], ylim[2]}

\* C8: a polyline whose first point lies exactly on the viewport boundary
\* gets no label.
C8_BoundaryFirstPointUnlabelled ==
    \A k \in 1..Len(plots) : FirstOnBoundary(plots[k]) => PolylineLabels(k) = {}

\* two polylines went through the labelling pass, one with its first point on
\* an x edge of the viewport and one with its first point on a y edge, and
\* neither got a label
C8_Witness ==
    /\ ppc = "done"
    /\ \E k \in label_pass :
          /\ 4 * plots[k].y[1] \in {xlim[1], xlim[2]}
          /\ 4 * plots[k].x[1] \notin {ylim[1], ylim[2]}
          /\ PolylineLabels(k) = {}
    /\ \E k \in label_pass :
          /\ 4 * plots[k].x[1] \in {ylim[1], ylim[2]}
          /\ 4 * plots[k].y[1] \notin {xlim[1], xlim[2]}
          /\ PolylineLabels(k) = {}

OutOfVisible(w) == w.den > 0 /\ (w.num < 380 * w.den \/ w.num > 750 * w.den)

\* C9: wavelength_to_rgb returns (0,0,0) below 380 nm and above 750 nm for
\* every gamma, and a polyline whose mean wavelength maps to a colour of
\* channel sum 0 is drawn in the neutral colour.
C9_SentinelAndNeutral ==
    /\ OutOfVisible([num |-> rgb_call.wavelength, den |-> 1]) => rgb_call.rgb = <<0, 0, 0>>
    /\ \A k \in 1..Len(plots) :
          /\ OutOfVisible(MeanWl(plots[k].wls)) => plots[k].col = <<0, 0, 0>>
          /\ (plots[k].col[1] + plots[k].col[2] + plots[k].col[3] = 0) => plots[k].neutral
          /\ OutOfVisible(MeanWl(plots[k].wls)) => plots[k].neutral

\* the mapper was called above 750 nm with a gamma other than the default, and
\* polylines with a mean below 380 nm, above 750 nm and in between were drawn
C9_Witness ==
    /\ ppc = "done"
    /\ rgb_call.wavelength > 750 /\ rgb_call.gamma /= DefaultGamma
    /\ rgb_call.rgb = <<0, 0, 0>>
    /\ \E k \in 1..Len(plots) :
          /\ Len(plots[k].wls) > 0
          /\ MeanWl(plots[k].wls).num < 380 * MeanWl(plots[k].wls).den
          /\ plots[k].neutral
    /\ \E k \in 1..Len(plots) :
          /\ MeanWl(plots[k].wls).num > 750 * MeanWl(plots[k].wls).den
          /\ plots[k].neutral
    /\ \E k \in 1..Len(plots) : ~plots[k].neutral

Min(a, b) == IF a < b THEN a ELSE b
Max(a, b) == IF a < b THEN b ELSE a

\* C4: when trace_lines returns, every (line, order) pair whose wavelength is
\* inside the window the scan used for the order and whose trace does not fail
\* has its record in the returned list, whatever other traces failed.
C4_FailureSkipsOnlyThatPair ==
    tpc = "done" =>
        \A a \in 1..Len(Orders), b \in 1..Len(line_list) :
            LET o == Orders[a]
                line_wl == LineWl(line_list[b].wl)
            IN  (/\ InWindow(line_wl, Window(o, FSRonly)[1], Window(o, FSRonly)[2])
                 /\ ~TraceFails(o.m, line_wl))
                => \E r \in 1..Len(lines_xy) :
                      lines_xy[r].name = line_list[b].name /\ lines_xy[r].m = o.m

\* C5: with FSRonly, a tested line is a trace candidate exactly when its
\* wavelength lies strictly between the smaller and the larger of the order's
\* two FSR bounds.
C5_FSRBoundsNormalised ==
    FSRonly =>
        \A t \in 1..Len(tested) :
            LET o == tested[t].order
            IN  tested[t].candidate <=>
                    (/\ tested[t].wl > Min(o.minFSRwl, o.maxFSRwl)
                     /\ tested[t].wl < Max(o.minFSRwl, o.maxFSRwl))

\* the order's window, whichever way its bounds are stored
InOrderWindow(o, wl) ==
    IF FSRonly
    THEN wl > Min(o.minFSRwl, o.maxFSRwl) /\ wl < Max(o.minFSRwl, o.maxFSRwl)
    ELSE wl > Min(o.minWL, o.maxWL) /\ wl < Max(o.minWL, o.maxWL)

\* C10: at every zGetTrace call the optical model's active order and
\* wavelength are those of the order being scanned and of the line being
\* tested, the record a trace produces carries the position of its own
\* (order, wavelength), and no trace is requested outside the order's window.
C10_TraceUnderOwnContext ==
    /\ tpc = "trace" =>
          /\ zmx_m = Orders[oi].m
          /\ zmx_wave = LineWl(line_list[li].wl)
    /\ \A e \in 1..Len(trace_log) :
          /\ trace_log[e].zmx_m = trace_log[e].m
          /\ trace_log[e].zmx_wave = trace_log[e].wl
          /\ InOrderWindow(trace_log[e].order, trace_log[e].wl)
    /\ \A r \in 1..Len(lines_xy) :
          lines_xy[r].xy = TracePosition(lines_xy[r].m, lines_xy[r].wl)

\* the scan returned after traces under two orders and two wavelengths, one
\* of them failed, with a record from a trace made after the failure
C10_Witness ==
    /\ tpc = "done"
    /\ \E e, f \in 1..Len(trace_log) :
          /\ e < f
          /\ trace_log[e].failed /\ ~trace_log[f].failed
          /\ trace_log[e].m /= trace_log[f].m
          /\ trace_log[e].wl /= trace_log[f].wl
    /\ Len(lines_xy) >= 2

====
